---- MODULE Spec2Model ----
(***************************************************************************)
(* Model of tools/build_candidate_set.py: the zone classifier, the         *)
(* great-circle distance and the proximity deduplication of ground-station *)
(* candidates.  Candidate objects live in a heap (cand) and the lists hold *)
(* references to them, because deduplicate_candidates mutates the          *)
(* representatives in place.                                               *)
(***************************************************************************)
EXTENDS Integers, Sequences, FiniteSets, TLC

VARIABLES
    cand,               \* heap: object reference -> Candidate fields
    candidates,         \* argument `candidates` of deduplicate_candidates (references)
    threshold_km,       \* argument `threshold_km`
    sorted_candidates,  \* local `sorted_candidates`
    pos,                \* number of elements of sorted_candidates already processed
    unique,             \* local `unique` (references)
    merged_count,       \* local `merged_count`
    pc,                 \* where the run is: "load" | "call" | "loop" | "returned" |
                        \* "summarized" | "written" | "zone" | "zoned" | "distance" |
                        \* "measured" | "sim"
    calls,              \* completed calls of deduplicate_candidates
    first_output,       \* history: the list returned by the first call
    entry,              \* history: the heap as it was when the current call was entered
    absorbed,           \* history: reference -> references merged into it, in merge order
    last,               \* history: what the last loop iteration did
    prev,               \* history: the heap as it was before the last loop iteration
    lon_in,             \* argument `lon` of assign_zone
    zone_out,           \* value returned by assign_zone ("" before the call)
    nodes,              \* the records of the ground-node file (line 93)
    points,             \* the records of the cable-landing file (line 126)
    node_pos,           \* records of nodes already read by load_ground_nodes
    point_pos,          \* records of points already read by load_cable_landings
    ground_nodes,       \* the list load_ground_nodes builds and returns (references)
    cable_landings,     \* the list load_cable_landings builds and returns (references)
    zone_counts,        \* value returned by summarize_by_zone (<< >> before the call)
    output,             \* the object main writes to OUTPUT_FILE (<< >> before)
    sim,                \* the GroundStationSimulator object (<< >> when there is none)
    packet_num,         \* local `packet_num` of GroundStationSimulator.run
    pts_in,             \* arguments of haversine_km: << <<lat1, lon1>>, <<lat2, lon2>> >>
    km_out              \* distances returned by haversine_km (<< >> before the calls)

vars == << cand, candidates, threshold_km, sorted_candidates, pos, unique,
           merged_count, pc, calls, first_output, entry, absorbed, last, prev,
           lon_in, zone_out, nodes, points, node_pos, point_pos, ground_nodes,
           cable_landings, zone_counts, output, sim, packet_num,
           pts_in, km_out >>

dedupVars == << cand, candidates, threshold_km, sorted_candidates, pos, unique,
                merged_count, calls, first_output, entry, absorbed, last, prev >>

zoneVars == << lon_in, zone_out >>

mainVars == << nodes, points, node_pos, point_pos, ground_nodes, cable_landings,
              zone_counts, output >>

simVars == << sim, packet_num >>

distVars == << pts_in, km_out >>

-----------------------------------------------------------------------------
(* Bounds of the model *)

\* longest input list handed to deduplicate_candidates
MaxCands == 3

\* most records in a source file
MaxRecords == 2

\* telemetry packets a run of the simulator sends
MaxPacketNum == 100

\* calls of deduplicate_candidates in a run
MaxCalls == 2

\* assign_zone is applied to every whole longitude in -(180+LonSlack) .. 180+LonSlack
LonSlack == 25

-----------------------------------------------------------------------------
(* Python values *)

\* None, for the Optional[int] / Optional[float] fields (their values are >= 0)
None == -1

\* None for an Optional[list]; a list l is Some(l)
NoneList == {}
Some(l) == {l}
TheList(o) == CHOOSE l \in o : TRUE

\* Python truthiness of an Optional number: None and 0 are falsy
Truthy(x) == x # None /\ x # 0

Max(a, b) == IF a >= b THEN a ELSE b

-----------------------------------------------------------------------------
(* Zone classifier *)

\* ZONES, in declaration order (dict order is insertion order)
ZONES == <<
    [name |-> "AMERICAS", lon_min |-> -180, lon_max |-> -30, quota |-> 72],
    [name |-> "EMEA",     lon_min |-> -30,  lon_max |-> 60,  quota |-> 85],
    [name |-> "APAC",     lon_min |-> 60,   lon_max |-> 180, quota |-> 90] >>

ZoneNames == { ZONES[k].name : k \in DOMAIN ZONES }

\* a mutant of InZone: both ends of the interval inclusive
InZoneClosed(zone_def, lon) == zone_def.lon_min <= lon /\ lon <= zone_def.lon_max

\* the test of line 82
InZone(zone_def, lon) == zone_def.lon_min <= lon /\ lon < zone_def.lon_max

\* a mutant of assign_zone: no fallback after the loop (returns None, as "")
assign_zone_nofallback(lon) ==
    LET hits == { k \in DOMAIN ZONES : InZone(ZONES[k], lon) }
    IN  IF hits # {} THEN ZONES[CHOOSE k \in hits : \A j \in hits : k <= j].name
        ELSE ""

\* assign_zone: the first zone, in declaration order, whose interval holds lon
assign_zone(lon) ==
    LET hits == { k \in DOMAIN ZONES : InZone(ZONES[k], lon) }
    IN  IF hits # {} THEN ZONES[CHOOSE k \in hits : \A j \in hits : k <= j].name
        ELSE "APAC"

-----------------------------------------------------------------------------
(* Distance oracle.  Coordinates are whole degrees on the 60-degree grid    *)
(* (latitudes also +-90), where the squared sines and the cosines of the    *)
(* haversine formula are exact rationals, and one coordinate off the grid,  *)
(* Tiny, on which double precision shows.  The result is in whole km: a 0   *)
(* is the float 0.0 except at the poles and across +-180, where the code    *)
(* returns about 1e-12.                                                     *)

\* the coordinate 1e-170 (degrees): a double that is not 0.0, that vanishes when
\* added to a grid coordinate other than 0, and whose sine squared underflows to 0.0
Tiny == 1

\* the grid coordinate that x is indistinguishable from in a sum
Whole(x) == IF x = Tiny THEN 0 ELSE x

\* x - y in double precision
FloatSub(x, y) ==
    IF Whole(x) = 0 /\ Whole(y) = 0 THEN x - y ELSE Whole(x) - Whole(y)

Mod360(d) == ((d % 360) + 360) % 360

\* 4 * sin(radians(d)/2)**2
Sin2Half4(d) ==
    CASE d \in {Tiny, -Tiny} -> 0
      [] Mod360(d) = 0   -> 0
      [] Mod360(d) = 60  -> 1
      [] Mod360(d) = 120 -> 3
      [] Mod360(d) = 180 -> 4
      [] Mod360(d) = 240 -> 3
      [] Mod360(d) = 300 -> 1

\* 2 * cos(radians(lat))
Cos2(lat) ==
    CASE lat \in {0, Tiny}   -> 2
      [] lat \in {60, -60}   -> 1
      [] lat \in {90, -90}   -> 0

\* R * 2 * atan2(sqrt(a), sqrt(1-a)) for a = a16/16, R = 6371.0, to the nearest km
ArcKm(a16) ==
    << 3220, 4605, 5706, 6672, 7559, 8398, 9209, 10008,
       10806, 11617, 12457, 13343, 14309, 15411, 16795, 20015 >>[a16]

\* a mutant of haversine_km: the cosine of lat1 is used for both points
haversine_km_one_cosine(lat1, lon1, lat2, lon2) ==
    LET dlat == FloatSub(lat2, lat1)
        dlon == FloatSub(lon2, lon1)
        a16  == 4 * Sin2Half4(dlat) + Cos2(lat1) * Cos2(lat1) * Sin2Half4(dlon)
    IN  IF a16 = 0 THEN 0 ELSE ArcKm(a16)

\* haversine_km: a = sin(dlat/2)**2 + cos(lat1)*cos(lat2)*sin(dlon/2)**2, times 16
haversine_km(lat1, lon1, lat2, lon2) ==
    LET dlat == FloatSub(lat2, lat1)
        dlon == FloatSub(lon2, lon1)
        a16  == 4 * Sin2Half4(dlat) + Cos2(lat1) * Cos2(lat2) * Sin2Half4(dlon)
    IN  IF a16 = 0 THEN 0 ELSE ArcKm(a16)

-----------------------------------------------------------------------------
(* Candidates *)

\* Candidate(...): the dataclass; k is the reference of the new object
Candidate(k, latitude, longitude, source, weather_score, cable_count, merged_sources) ==
    [ id             |-> k,
      name           |-> "Unknown",
      latitude       |-> latitude,
      longitude      |-> longitude,
      zone           |-> assign_zone(longitude),
      source         |-> source,
      tier           |-> None,
      demand_gbps    |-> None,
      weather_score  |-> weather_score,
      cable_count    |-> cable_count,
      \* the cables list of record k is the list object "k"; ground nodes carry none
      cables         |-> IF source = "cable_landing" THEN Some(k) ELSE NoneList,
      merged_sources |-> merged_sources ]

Refs == DOMAIN cand

Range(s) == { s[k] : k \in DOMAIN s }

-----------------------------------------------------------------------------
(* deduplicate_candidates *)

\* c.cable_count or 0
Or0(x) == IF Truthy(x) THEN x ELSE 0

\* a mutant of importance: the cable count ascending
importance_ascending(c) ==
    << IF c.source = "ground_node" THEN 0 ELSE 1, Or0(c.cable_count) >>

\* a mutant of importance: the source is not part of the key
importance_nosource(c) == << 0, -Or0(c.cable_count) >>

\* importance(c): (source_priority, cable_priority)
importance(c) ==
    << IF c.source = "ground_node" THEN 0 ELSE 1, -Or0(c.cable_count) >>

\* tuple comparison
KeyLess(k1, k2) == k1[1] < k2[1] \/ (k1[1] = k2[1] /\ k1[2] < k2[2])

\* a mutant of Sorted: elements with equal keys come out in reverse input order
SortedTiesReversed(list, heap) ==
    LET key(k) == importance(heap[list[k]])
        before(k) == { j \in DOMAIN list :
                         \/ KeyLess(key(j), key(k))
                         \/ (key(j) = key(k) /\ j > k) }
        at(r) == CHOOSE k \in DOMAIN list : Cardinality(before(k)) = r - 1
    IN  [ r \in DOMAIN list |-> list[at(r)] ]

\* sorted(list, key=importance): stable, so an element's place is the number of
\* elements with a smaller key, or with an equal key and an earlier position
Sorted(list, heap) ==
    LET key(k) == importance(heap[list[k]])
        before(k) == { j \in DOMAIN list :
                         \/ KeyLess(key(j), key(k))
                         \/ (key(j) = key(k) /\ j < k) }
        at(r) == CHOOSE k \in DOMAIN list : Cardinality(before(k)) = r - 1
    IN  [ r \in DOMAIN list |-> list[at(r)] ]

\* a mutant of WithinThreshold: a distance equal to the threshold matches too
WithinThresholdInclusive(dist, threshold) == dist <= threshold

\* the test of line 179
WithinThreshold(dist, threshold) == dist < threshold

Dist(a, b) == haversine_km(a.latitude, a.longitude, b.latitude, b.longitude)

\* a mutant of FirstMatch: the last representative within the threshold
LastMatch(c, uniq, heap, threshold) ==
    LET hits == { k \in DOMAIN uniq :
                    WithinThreshold(Dist(heap[c], heap[uniq[k]]), threshold) }
    IN  IF hits = {} THEN 0 ELSE CHOOSE k \in hits : \A j \in hits : j <= k

\* a mutant of FirstMatch: only the representative appended last is compared
OnlyLastMatch(c, uniq, heap, threshold) ==
    IF uniq # <<>> /\ WithinThreshold(Dist(heap[c], heap[uniq[Len(uniq)]]), threshold)
    THEN Len(uniq) ELSE 0

\* a mutant of FirstMatch: the nearest representative within the threshold (the
\* earliest of them when several are equally near)
NearestMatch(c, uniq, heap, threshold) ==
    LET d(k) == Dist(heap[c], heap[uniq[k]])
        hits == { k \in DOMAIN uniq : WithinThreshold(d(k), threshold) }
    IN  IF hits = {} THEN 0
        ELSE CHOOSE k \in hits :
                 \A j \in hits : d(k) < d(j) \/ (d(k) = d(j) /\ k <= j)

\* a mutant of FirstMatch: a representative matches only when everything already
\* merged into it is within the threshold of c as well
AllMembersMatch(c, uniq, heap, threshold) ==
    LET near(r) == WithinThreshold(Dist(heap[c], heap[r]), threshold)
        hits == { k \in DOMAIN uniq :
                    /\ near(uniq[k])
                    /\ \A m \in DOMAIN absorbed[uniq[k]] : near(absorbed[uniq[k]][m]) }
    IN  IF hits = {} THEN 0 ELSE CHOOSE k \in hits : \A j \in hits : k <= j

\* the inner loop of lines 173-201: the index in unique of the first
\* representative within the threshold of c, 0 when there is none
FirstMatch(c, uniq, heap, threshold) ==
    LET hits == { k \in DOMAIN uniq :
                    WithinThreshold(Dist(heap[c], heap[uniq[k]]), threshold) }
    IN  IF hits = {} THEN 0 ELSE CHOOSE k \in hits : \A j \in hits : k <= j

\* a mutant of MergeSources: the representative's own source is not recorded
MergeSourcesNoOwn(existing, candidate) ==
    IF existing.merged_sources = NoneList
    THEN Some(<< candidate.source >>)
    ELSE Some(Append(TheList(existing.merged_sources), candidate.source))

\* lines 185-187
MergeSources(existing, candidate) ==
    IF existing.merged_sources = NoneList
    THEN Some(<< existing.source, candidate.source >>)
    ELSE Some(Append(TheList(existing.merged_sources), candidate.source))

\* a mutant of MergeCable: the counts are summed
MergeCableSum(existing, candidate) ==
    IF existing.cable_count = None /\ Truthy(candidate.cable_count)
    THEN [existing EXCEPT !.cable_count = candidate.cable_count,
                          !.cables = candidate.cables]
    ELSE IF Truthy(existing.cable_count) /\ Truthy(candidate.cable_count)
    THEN [existing EXCEPT !.cable_count = existing.cable_count + candidate.cable_count]
    ELSE existing

\* a mutant of MergeCable: the candidate's count always replaces the representative's
MergeCableOverwrite(existing, candidate) ==
    IF candidate.cable_count # None
    THEN [existing EXCEPT !.cable_count = candidate.cable_count,
                          !.cables = candidate.cables]
    ELSE existing

\* lines 190-195
MergeCable(existing, candidate) ==
    IF existing.cable_count = None /\ Truthy(candidate.cable_count)
    THEN [existing EXCEPT !.cable_count = candidate.cable_count,
                          !.cables = candidate.cables]
    ELSE IF Truthy(existing.cable_count) /\ Truthy(candidate.cable_count)
    THEN [existing EXCEPT !.cable_count =
                              Max(existing.cable_count, candidate.cable_count)]
    ELSE existing

\* a mutant of MergeWeather: a later score replaces the one already set
MergeWeatherOverride(existing, candidate) ==
    IF Truthy(candidate.weather_score)
    THEN [existing EXCEPT !.weather_score = candidate.weather_score]
    ELSE existing

\* lines 198-199
MergeWeather(existing, candidate) ==
    IF existing.weather_score = None /\ Truthy(candidate.weather_score)
    THEN [existing EXCEPT !.weather_score = candidate.weather_score]
    ELSE existing

\* a mutant of Merge: the representative moves to the merged candidate's coordinates
MergeRelocate(existing, candidate) ==
    [ MergeWeather(
          MergeCable([existing EXCEPT !.merged_sources = MergeSources(existing, candidate)],
                     candidate),
          candidate)
      EXCEPT !.latitude = candidate.latitude, !.longitude = candidate.longitude ]

\* lines 180-199: what the merge of candidate makes of existing
Merge(existing, candidate) ==
    MergeWeather(
        MergeCable([existing EXCEPT !.merged_sources = MergeSources(existing, candidate)],
                   candidate),
        candidate)

NoStep == [kind |-> "none", c |-> 0, e |-> 0]

\* lines 157-168: the call, up to the loop
Enter ==
    /\ pc = "call"
    /\ sorted_candidates' = Sorted(candidates, cand)
    /\ unique' = << >>
    /\ merged_count' = 0
    /\ pos' = 0
    /\ entry' = cand
    /\ absorbed' = [r \in Refs |-> << >>]
    /\ last' = NoStep
    /\ prev' = cand
    /\ pc' = "loop"
    /\ UNCHANGED << cand, candidates, threshold_km, calls, first_output,
                    zoneVars, mainVars, distVars, simVars >>

\* a mutant of IterateMerge: the merged candidate is appended to unique as well
IterateMergeAndAppend ==
    /\ pc = "loop"
    /\ pos < Len(sorted_candidates)
    /\ LET c == sorted_candidates[pos + 1]
           k == FirstMatch(c, unique, cand, threshold_km)
       IN  /\ k # 0
           /\ merged_count' = merged_count + 1
           /\ cand' = [cand EXCEPT ![unique[k]] = Merge(cand[unique[k]], cand[c])]
           /\ absorbed' = [absorbed EXCEPT ![unique[k]] = Append(@, c)]
           /\ last' = [kind |-> "merge", c |-> c, e |-> unique[k]]
           /\ unique' = Append(unique, c)
    /\ prev' = cand
    /\ pos' = pos + 1
    /\ UNCHANGED << candidates, threshold_km, sorted_candidates, pc, calls,
                    first_output, entry, zoneVars, mainVars, distVars, simVars >>

\* lines 170-201: an iteration that finds a representative within the threshold
IterateMerge ==
    /\ pc = "loop"
    /\ pos < Len(sorted_candidates)
    /\ LET c == sorted_candidates[pos + 1]
           k == FirstMatch(c, unique, cand, threshold_km)
       IN  /\ k # 0
           /\ merged_count' = merged_count + 1
           /\ cand' = [cand EXCEPT ![unique[k]] = Merge(cand[unique[k]], cand[c])]
           /\ absorbed' = [absorbed EXCEPT ![unique[k]] = Append(@, c)]
           /\ last' = [kind |-> "merge", c |-> c, e |-> unique[k]]
    /\ prev' = cand
    /\ pos' = pos + 1
    /\ UNCHANGED << candidates, threshold_km, sorted_candidates, unique, pc, calls,
                    first_output, entry, zoneVars, mainVars, distVars, simVars >>

\* lines 170-204: an iteration that finds none
IterateAppend ==
    /\ pc = "loop"
    /\ pos < Len(sorted_candidates)
    /\ LET c == sorted_candidates[pos + 1]
       IN  /\ FirstMatch(c, unique, cand, threshold_km) = 0
           /\ unique' = Append(unique, c)
           /\ last' = [kind |-> "append", c |-> c, e |-> 0]
    /\ prev' = cand
    /\ pos' = pos + 1
    /\ UNCHANGED << cand, candidates, threshold_km, sorted_candidates, merged_count,
                    pc, calls, first_output, entry, absorbed,
                    zoneVars, mainVars, distVars, simVars >>

\* lines 206-209: the loop is over, unique is returned
Return ==
    /\ pc = "loop"
    /\ pos = Len(sorted_candidates)
    /\ pc' = "returned"
    /\ calls' = calls + 1
    /\ first_output' = IF calls = 0 THEN unique ELSE first_output
    /\ UNCHANGED << cand, candidates, threshold_km, sorted_candidates, pos, unique,
                    merged_count, entry, absorbed, last, prev,
                    zoneVars, mainVars, distVars, simVars >>

\* a second call, on the list the previous call returned (the same objects)
CallAgain ==
    /\ pc = "returned"
    /\ calls < MaxCalls
    /\ candidates' = unique
    /\ pc' = "call"
    /\ UNCHANGED << cand, threshold_km, sorted_candidates, pos, unique, merged_count,
                    calls, first_output, entry, absorbed, last, prev,
                    zoneVars, mainVars, distVars, simVars >>

\* assign_zone(lon_in) is called and returns
AssignZone ==
    /\ pc = "zone"
    /\ zone_out' = assign_zone(lon_in)
    /\ pc' = "zoned"
    /\ UNCHANGED << dedupVars, lon_in, mainVars, distVars, simVars >>

-----------------------------------------------------------------------------
(* The loaders, summarize_by_zone and main.  A record of a source file is a *)
(* dict: a function whose domain holds the keys that are present.           *)

\* PROXIMITY_THRESHOLD_KM = 50.0
PROXIMITY_THRESHOLD_KM == 50

\* d.get(key, default)
Get(d, key, default) == IF key \in DOMAIN d THEN d[key] ELSE default

\* a mutant of Unlocated: a coordinate that is falsy (0 too) drops the record
UnlocatedFalsy(lat, lon) == ~Truthy(lat) \/ ~Truthy(lon)

\* the test of lines 100 and 133: lat is None or lon is None
Unlocated(lat, lon) == lat = None \/ lon = None

\* f"gn-{n}" and f"cl-{n}"
FallbackId(prefix, n) == prefix \o "-" \o ToString(n)

\* lines 103-113: the Candidate of a ground-node record; k is the reference of the
\* new object, n is len(candidates) when it is built
GroundNodeCandidate(k, node, n) ==
    [ Candidate(k, node.latitude, node.longitude, "ground_node",
                Get(node, "weather_score", None), None, NoneList)
      EXCEPT !.id          = Get(node, "id", FallbackId("gn", n)),
             !.name        = Get(node, "name", "Unknown"),
             !.tier        = Get(node, "tier", None),
             !.demand_gbps = Get(node, "demand_gbps", None) ]

\* lines 136-145: the Candidate of a cable-landing record
CableLandingCandidate(k, point, n) ==
    [ Candidate(k, point.latitude, point.longitude, "cable_landing",
                None, Get(point, "cable_count", 0), NoneList)
      EXCEPT !.id   = Get(point, "id", FallbackId("cl", n)),
             !.name = Get(point, "name", "Unknown") ]

\* a new object at the end of the heap; the history variables follow the heap
Allocate(c) ==
    /\ cand' = Append(cand, c)
    /\ entry' = cand'
    /\ prev' = cand'
    /\ absorbed' = [ r \in DOMAIN cand' |-> << >> ]

\* lines 96-101: load_ground_nodes skips a record without both coordinates
LoadGroundNodeSkip ==
    /\ pc = "load"
    /\ node_pos < Len(nodes)
    /\ LET node == nodes[node_pos + 1]
       IN  Unlocated(Get(node, "latitude", None), Get(node, "longitude", None))
    /\ node_pos' = node_pos + 1
    /\ UNCHANGED << dedupVars, pc, nodes, points, point_pos, ground_nodes,
                    cable_landings, zone_counts, output, zoneVars,
                    distVars, simVars >>

\* a mutant of LoadGroundNodeAppend: the fallback id counts the records read, the
\* dropped ones too
LoadGroundNodeAppendByPosition ==
    /\ pc = "load"
    /\ node_pos < Len(nodes)
    /\ LET node == nodes[node_pos + 1]
       IN  /\ ~Unlocated(Get(node, "latitude", None), Get(node, "longitude", None))
           /\ Allocate(GroundNodeCandidate(Len(cand) + 1, node, node_pos))
    /\ ground_nodes' = Append(ground_nodes, Len(cand) + 1)
    /\ node_pos' = node_pos + 1
    /\ UNCHANGED << candidates, threshold_km, sorted_candidates, pos, unique,
                    merged_count, calls, first_output, last, pc, nodes, points,
                    point_pos, cable_landings, zone_counts, output, zoneVars,
                    distVars, simVars >>

\* lines 96-113: load_ground_nodes appends the Candidate of a record
LoadGroundNodeAppend ==
    /\ pc = "load"
    /\ node_pos < Len(nodes)
    /\ LET node == nodes[node_pos + 1]
       IN  /\ ~Unlocated(Get(node, "latitude", None), Get(node, "longitude", None))
           /\ Allocate(GroundNodeCandidate(Len(cand) + 1, node, Len(ground_nodes)))
    /\ ground_nodes' = Append(ground_nodes, Len(cand) + 1)
    /\ node_pos' = node_pos + 1
    /\ UNCHANGED << candidates, threshold_km, sorted_candidates, pos, unique,
                    merged_count, calls, first_output, last, pc, nodes, points,
                    point_pos, cable_landings, zone_counts, output, zoneVars,
                    distVars, simVars >>

\* lines 129-134: load_cable_landings, called when load_ground_nodes has returned,
\* skips a record without both coordinates
LoadCableLandingSkip ==
    /\ pc = "load"
    /\ node_pos = Len(nodes)
    /\ point_pos < Len(points)
    /\ LET point == points[point_pos + 1]
       IN  Unlocated(Get(point, "latitude", None), Get(point, "longitude", None))
    /\ point_pos' = point_pos + 1
    /\ UNCHANGED << dedupVars, pc, nodes, points, node_pos, ground_nodes,
                    cable_landings, zone_counts, output, zoneVars,
                    distVars, simVars >>

\* lines 129-145: load_cable_landings appends the Candidate of a record
LoadCableLandingAppend ==
    /\ pc = "load"
    /\ node_pos = Len(nodes)
    /\ point_pos < Len(points)
    /\ LET point == points[point_pos + 1]
       IN  /\ ~Unlocated(Get(point, "latitude", None), Get(point, "longitude", None))
           /\ Allocate(CableLandingCandidate(Len(cand) + 1, point, Len(cable_landings)))
    /\ cable_landings' = Append(cable_landings, Len(cand) + 1)
    /\ point_pos' = point_pos + 1
    /\ UNCHANGED << candidates, threshold_km, sorted_candidates, pos, unique,
                    merged_count, calls, first_output, last, pc, nodes, points,
                    node_pos, ground_nodes, zone_counts, output, zoneVars,
                    distVars, simVars >>

\* lines 233-237: main joins the two lists and calls deduplicate_candidates
Combine ==
    /\ pc = "load"
    /\ node_pos = Len(nodes)
    /\ point_pos = Len(points)
    /\ candidates' = ground_nodes \o cable_landings
    /\ threshold_km' = PROXIMITY_THRESHOLD_KM
    /\ pc' = "call"
    /\ UNCHANGED << cand, sorted_candidates, pos, unique, merged_count, calls,
                    first_output, entry, absorbed, last, prev,
                    zoneVars, mainVars, distVars, simVars >>

\* a mutant of summarize_by_zone: every loaded candidate is counted
summarize_all_loaded(list, heap) ==
    [ z \in {"AMERICAS", "EMEA", "APAC"} |->
          Cardinality({ r \in DOMAIN heap : heap[r].zone = z }) ]

\* a mutant of summarize_by_zone: only the zones that have a candidate are keys
summarize_present(list, heap) ==
    [ z \in { heap[list[k]].zone : k \in DOMAIN list } |->
          Cardinality({ k \in DOMAIN list : heap[list[k]].zone = z }) ]

\* summarize_by_zone: the three keys of line 214, each with the number of
\* elements of the list that have that zone
summarize_by_zone(list, heap) ==
    [ z \in {"AMERICAS", "EMEA", "APAC"} |->
          Cardinality({ k \in DOMAIN list : heap[list[k]].zone = z }) ]

\* line 240: main calls summarize_by_zone on the list deduplicate_candidates returned
Summarize ==
    /\ pc = "returned"
    /\ zone_counts' = summarize_by_zone(unique, cand)
    /\ last' = [kind |-> "summarize", c |-> 0, e |-> 0]
    /\ prev' = cand
    /\ pc' = "summarized"
    /\ UNCHANGED << cand, candidates, threshold_km, sorted_candidates, pos, unique,
                    merged_count, calls, first_output, entry, absorbed,
                    nodes, points, node_pos, point_pos, ground_nodes, cable_landings,
                    output, zoneVars, distVars, simVars >>

\* a mutant of WriteOutput: the total is the number of candidates before
\* deduplication
WriteOutputRawTotal ==
    /\ pc = "summarized"
    /\ output' = [ candidates |-> [ k \in DOMAIN unique |-> cand[unique[k]] ],
                   metadata |->
                       [ total_candidates   |-> Len(candidates),
                         zone_distribution  |-> zone_counts,
                         sources            |-> [ ground_nodes   |-> Len(ground_nodes),
                                                  cable_landings |-> Len(cable_landings) ],
                         dedup_threshold_km |-> PROXIMITY_THRESHOLD_KM ] ]
    /\ pc' = "written"
    /\ UNCHANGED << dedupVars, nodes, points, node_pos, point_pos, ground_nodes,
                    cable_landings, zone_counts, zoneVars, distVars, simVars >>

\* lines 247-262: main builds the output object and writes it
WriteOutput ==
    /\ pc = "summarized"
    /\ output' = [ candidates |-> [ k \in DOMAIN unique |-> cand[unique[k]] ],
                   metadata |->
                       [ total_candidates   |-> Len(unique),
                         zone_distribution  |-> zone_counts,
                         sources            |-> [ ground_nodes   |-> Len(ground_nodes),
                                                  cable_landings |-> Len(cable_landings) ],
                         dedup_threshold_km |-> PROXIMITY_THRESHOLD_KM ] ]
    /\ pc' = "written"
    /\ UNCHANGED << dedupVars, nodes, points, node_pos, point_pos, ground_nodes,
                    cable_landings, zone_counts, zoneVars, distVars, simVars >>

\* haversine_km is called on the two points, both ways round and on each with itself
Measure ==
    /\ pc = "distance"
    /\ LET a == pts_in[1]
           b == pts_in[2]
       IN  km_out' = [ ab |-> haversine_km(a[1], a[2], b[1], b[2]),
                       ba |-> haversine_km(b[1], b[2], a[1], a[2]),
                       aa |-> haversine_km(a[1], a[2], a[1], a[2]),
                       bb |-> haversine_km(b[1], b[2], b[1], b[2]) ]
    /\ pc' = "measured"
    /\ UNCHANGED << dedupVars, zoneVars, mainVars, pts_in, simVars >>

-----------------------------------------------------------------------------
(* The telemetry simulator (yamcs-seed/telemetry_simulator.py).  The azimuth is *)
(* in degrees, the elevation in half degrees.                                  *)

\* GroundStationSimulator.__init__, lines 21-27
NewSimulator ==
    [ azimuth       |-> 180,
      elevation     |-> 90,
      tracking_mode |-> 0,
      link_locked   |-> FALSE,
      packet_count  |-> 0 ]

\* values of 180.0 + 30.0 * math.sin(t / 10.0), whatever the clock reads
TrackAzimuths == { 150, 180, 210 }

\* values of 45.0 + 10.0 * math.cos(t / 15.0), in half degrees
TrackElevations == { 70, 110 }

\* values of random.randint(50, 150)
PacketIncrements == { 50, 150 }

\* a mutant of Wraps: an azimuth of 360.0 wraps too
WrapsAtOrAbove(azimuth) == azimuth >= 360

\* the test of line 51
Wraps(azimuth) == azimuth > 360

\* lines 150-152 with generate_telemetry, lines 41-45 and 59-71: a call in TRACKING
GenerateTracking ==
    /\ pc = "sim"
    /\ packet_num < MaxPacketNum
    /\ sim.tracking_mode = 2
    /\ \E az \in TrackAzimuths, el \in TrackElevations, n \in PacketIncrements :
          sim' = [ sim EXCEPT !.azimuth = az,
                              !.elevation = el,
                              !.link_locked = TRUE,
                              !.packet_count = @ + n ]
    /\ packet_num' = packet_num + 1
    /\ UNCHANGED << dedupVars, pc, zoneVars, mainVars, distVars >>

\* lines 46-53 and 59-71: a call in SLEWING
GenerateSlewing ==
    /\ pc = "sim"
    /\ packet_num < MaxPacketNum
    /\ sim.tracking_mode = 1
    /\ LET az   == sim.azimuth + 2
           mode == IF Wraps(az) THEN 2 ELSE 1
       IN  \E n \in PacketIncrements :
               sim' = [ sim EXCEPT !.azimuth = IF Wraps(az) THEN az - 360 ELSE az,
                                   !.elevation = @ + 1,
                                   !.tracking_mode = mode,
                                   !.link_locked = (mode = 2),
                                   !.packet_count = IF mode = 2 THEN @ + n ELSE @ ]
    /\ packet_num' = packet_num + 1
    /\ UNCHANGED << dedupVars, pc, zoneVars, mainVars, distVars >>

\* lines 54-56 and 59-71: a call in IDLE, STOWED or any other mode
GenerateIdle ==
    /\ pc = "sim"
    /\ packet_num < MaxPacketNum
    /\ sim.tracking_mode \notin {1, 2}
    /\ sim' = [ sim EXCEPT !.link_locked = FALSE ]
    /\ packet_num' = packet_num + 1
    /\ UNCHANGED << dedupVars, pc, zoneVars, mainVars, distVars >>

-----------------------------------------------------------------------------
(* Inputs *)

Sources == { "ground_node", "cable_landing" }

\* (latitude, longitude) of three sites: West - Mid and Mid - East are 6672 km and
\* 8398 km apart, West - East 11617 km
West == << 0, -60 >>
Mid  == << 0, 0 >>
East == << 60, 60 >>

\* 6672 km is exactly the distance West - Mid; 10000 km makes West - Mid - East a
\* chain whose ends are not within the threshold of each other
Thresholds == { 6672, 10000 }

\* no file has been loaded and no summary made
IdleMain ==
    /\ nodes = << >>
    /\ points = << >>
    /\ node_pos = 0
    /\ point_pos = 0
    /\ ground_nodes = << >>
    /\ cable_landings = << >>
    /\ zone_counts = << >>
    /\ output = << >>

\* haversine_km is not being called and there is no simulator
IdleDistance ==
    /\ pts_in = << >>
    /\ km_out = << >>
    /\ sim = << >>
    /\ packet_num = 0

\* the state before a call on a list of at most MaxCands candidates, each a new
\* object whose fields are drawn from the given sets
InitDedup(sites, thresholds, cable_counts, weather_scores, merged) ==
    /\ \E n \in 0..MaxCands :
          \E f \in [ 1..n -> sites \X Sources \X weather_scores
                                   \X cable_counts \X merged ] :
              cand = [ k \in 1..n |-> Candidate(k, f[k][1][1], f[k][1][2], f[k][2],
                                                 f[k][3], f[k][4], f[k][5]) ]
    /\ candidates = [ k \in DOMAIN cand |-> k ]
    /\ threshold_km \in thresholds
    /\ sorted_candidates = << >>
    /\ pos = 0
    /\ unique = << >>
    /\ merged_count = 0
    /\ pc = "call"
    /\ calls = 0
    /\ first_output = << >>
    /\ entry = cand
    /\ absorbed = [ r \in DOMAIN cand |-> << >> ]
    /\ last = NoStep
    /\ prev = cand
    /\ lon_in = 0
    /\ zone_out = ""
    /\ IdleMain
    /\ IdleDistance

\* candidates as the loaders build them (merged_sources None), no weather scores
Init == InitDedup({West, Mid, East}, Thresholds, {None, 1}, {None}, {NoneList})

Next == Enter \/ IterateMerge \/ IterateAppend \/ Return \/ CallAgain

Spec == Init /\ [][Next]_vars

\* candidates of any source carrying cable counts None, 0, 1 and 2, at two sites
\* that are not within the threshold of each other
InitCable == InitDedup({West, East}, {10000}, {None, 0, 1, 2}, {None}, {NoneList})

SpecCable == InitCable /\ [][Next]_vars

\* candidates carrying weather scores None, 0, 1 and 2
InitWeather == InitDedup({West, East}, {10000}, {None}, {None, 0, 1, 2}, {NoneList})

SpecWeather == InitWeather /\ [][Next]_vars

\* candidates that enter with merged_sources None or []
InitSources == InitDedup({West, East}, {10000}, {None, 1}, {None},
                         {NoneList, Some(<< >>)})

SpecSources == InitSources /\ [][Next]_vars

\* assign_zone on every whole longitude from below -180 to above 180
InitZone ==
    /\ lon_in \in (-180 - LonSlack) .. (180 + LonSlack)
    /\ zone_out = ""
    /\ pc = "zone"
    /\ cand = << >>
    /\ candidates = << >>
    /\ threshold_km = 0
    /\ sorted_candidates = << >>
    /\ pos = 0
    /\ unique = << >>
    /\ merged_count = 0
    /\ calls = 0
    /\ first_output = << >>
    /\ entry = << >>
    /\ absorbed = << >>
    /\ last = NoStep
    /\ prev = << >>
    /\ IdleMain
    /\ IdleDistance

NextZone == AssignZone

SpecZone == InitZone /\ [][NextZone]_vars

\* the points haversine_km is measured on: latitudes and longitudes of the grid,
\* short of the poles and of -180, and Tiny
GridPoints == {-60, 0, Tiny, 60} \X {-120, -60, 0, Tiny, 60, 120, 180}

InitDistance ==
    /\ pts_in \in GridPoints \X GridPoints
    /\ km_out = << >>
    /\ pc = "distance"
    /\ cand = << >>
    /\ candidates = << >>
    /\ threshold_km = 0
    /\ sorted_candidates = << >>
    /\ pos = 0
    /\ unique = << >>
    /\ merged_count = 0
    /\ calls = 0
    /\ first_output = << >>
    /\ entry = << >>
    /\ absorbed = << >>
    /\ last = NoStep
    /\ prev = << >>
    /\ lon_in = 0
    /\ zone_out = ""
    /\ IdleMain
    /\ sim = << >>
    /\ packet_num = 0

NextDistance == Measure

SpecDistance == InitDistance /\ [][NextDistance]_vars

\* a new simulator put in one of the four modes before run() is called
InitSim ==
    /\ \E mode \in 0..3 : sim = [ NewSimulator EXCEPT !.tracking_mode = mode ]
    /\ packet_num = 0
    /\ pc = "sim"
    /\ cand = << >>
    /\ candidates = << >>
    /\ threshold_km = 0
    /\ sorted_candidates = << >>
    /\ pos = 0
    /\ unique = << >>
    /\ merged_count = 0
    /\ calls = 0
    /\ first_output = << >>
    /\ entry = << >>
    /\ absorbed = << >>
    /\ last = NoStep
    /\ prev = << >>
    /\ lon_in = 0
    /\ zone_out = ""
    /\ IdleMain
    /\ pts_in = << >>
    /\ km_out = << >>

NextSim == GenerateTracking \/ GenerateSlewing \/ GenerateIdle

SpecSim == InitSim /\ [][NextSim]_vars

\* run() calls generate_telemetry again and again (line 149, while True)
FairSpecSim == SpecSim /\ WF_vars(NextSim)

\* a record (a dict) made of the keys of a and the keys of b
Keys(a, b) == a @@ b

\* the state before main runs on two source files of at most MaxRecords records
InitMain(node_records, point_records) ==
    /\ \E n \in 0..MaxRecords : nodes \in [ 1..n -> node_records ]
    /\ \E n \in 0..MaxRecords : points \in [ 1..n -> point_records ]
    /\ node_pos = 0
    /\ point_pos = 0
    /\ ground_nodes = << >>
    /\ cable_landings = << >>
    /\ zone_counts = << >>
    /\ output = << >>
    /\ pc = "load"
    /\ cand = << >>
    /\ candidates = << >>
    /\ threshold_km = 0
    /\ sorted_candidates = << >>
    /\ pos = 0
    /\ unique = << >>
    /\ merged_count = 0
    /\ calls = 0
    /\ first_output = << >>
    /\ entry = << >>
    /\ absorbed = << >>
    /\ last = NoStep
    /\ prev = << >>
    /\ lon_in = 0
    /\ zone_out = ""
    /\ IdleDistance

NextMain ==
    \/ LoadGroundNodeSkip \/ LoadGroundNodeAppend
    \/ LoadCableLandingSkip \/ LoadCableLandingAppend
    \/ Combine
    \/ Enter \/ IterateMerge \/ IterateAppend \/ Return
    \/ Summarize
    \/ WriteOutput

\* ground-node records with both coordinates 0, at latitude 0 and longitude 60,
\* without the latitude key, and with a longitude that is null, each with or
\* without an id; the id is one that the fallback also makes
NodeLoadRecords ==
    { Keys(c, i) : c \in { [latitude |-> 0, longitude |-> 0],
                          [latitude |-> 0, longitude |-> 60],
                          [longitude |-> 60],
                          [latitude |-> 60, longitude |-> None] },
                   i \in { << >>, [id |-> "gn-0"] } }

\* cable-landing records with both coordinates 0 and with a latitude that is null
PointLoadRecords ==
    { Keys(c, i) : c \in { [latitude |-> 0, longitude |-> 0],
                          [latitude |-> None, longitude |-> 60] },
                   i \in { << >>, [id |-> "gn-0"] } }

InitLoad == InitMain(NodeLoadRecords, PointLoadRecords)

SpecLoad == InitLoad /\ [][NextMain]_vars

\* ground-node records at the three sites, and one without the latitude key
NodeRecords ==
    { [latitude |-> West[1], longitude |-> West[2]],
      [latitude |-> Mid[1],  longitude |-> Mid[2]],
      [latitude |-> East[1], longitude |-> East[2]],
      [longitude |-> 60] }

\* cable-landing records at the same places, with a cable_count of 2 or none
PointRecords ==
    { Keys(c, n) : c \in NodeRecords, n \in { << >>, [cable_count |-> 2] } }

InitPipeline == InitMain(NodeRecords, PointRecords)

SpecMain == InitPipeline /\ [][NextMain]_vars

\* records at two sites
CableSites ==
    { [latitude |-> Mid[1],  longitude |-> Mid[2]],
      [latitude |-> East[1], longitude |-> East[2]] }

\* ground-node records at the two sites, and one with no latitude
NodeCableRecords == CableSites \cup { [longitude |-> East[2]] }

\* cable-landing records at the same sites, with no cable_count, 1 or 2, and one
\* with a null latitude
PointCableRecords ==
    { Keys(c, n) : c \in CableSites,
                   n \in { << >>, [cable_count |-> 1], [cable_count |-> 2] } }
      \cup { [latitude |-> None, longitude |-> East[2], cable_count |-> 2] }

InitMainCable == InitMain(NodeCableRecords, PointCableRecords)

SpecMainCable == InitMainCable /\ [][NextMain]_vars

-----------------------------------------------------------------------------
(* Properties *)

\* the representative that stands for reference c: c itself or the one c was merged into
Stands(r, c) == r = c \/ c \in Range(absorbed[r])

\* C1: at every point of the loop and at the return, any two distinct members of
\* unique are at a distance >= threshold_km of each other
NoCloseRepresentatives ==
    \A i, j \in DOMAIN unique :
        i # j => Dist(cand[unique[i]], cand[unique[j]]) >= threshold_km

\* C1 witness: a call has returned two representatives after at least one merge
NoCloseRepresentativesWitness ==
    pc = "returned" /\ Len(unique) >= 2 /\ merged_count >= 1

\* C2: a call on the output of the previous call merges nothing and returns the
\* same candidates
DedupIdempotent ==
    /\ calls >= 1 /\ pc = "loop" => merged_count = 0
    /\ calls >= 2 /\ pc = "returned" =>
          /\ merged_count = 0
          /\ Len(unique) = Len(first_output)
          /\ Range(unique) = Range(first_output)

\* C2 witness: the second call has returned, after a first call that merged and
\* changed a cable_count so that the second call processed in another order
DedupIdempotentWitness ==
    /\ calls = 2
    /\ pc = "returned"
    /\ Len(candidates) < Cardinality(Refs)
    /\ unique # first_output

\* the output representative that stands for c
RepOf(c) == CHOOSE r \in Range(unique) : Stands(r, c)

\* the entries of a representative's merged_sources (none when it is None)
MergedSet(r) ==
    IF cand[r].merged_sources = NoneList THEN {}
    ELSE Range(TheList(cand[r].merged_sources))

\* a ground node g and a cable landing c of the input that are within the threshold
SameSite(g, c) ==
    /\ entry[g].source = "ground_node"
    /\ entry[c].source = "cable_landing"
    /\ Dist(entry[g], entry[c]) < threshold_km

Before == prev[last.e]

\* the records a representative stands for, in processing order: itself as it
\* entered the call, then the candidates merged into it
Cluster(r) == << entry[r] >> \o [ k \in DOMAIN absorbed[r] |-> entry[absorbed[r][k]] ]

\* the largest cable_count of a cluster, None (the lowest) when none has one
MaxCableCount(records) ==
    CHOOSE m \in { records[k].cable_count : k \in DOMAIN records } :
        \A k \in DOMAIN records : records[k].cable_count <= m

\* C4 as stated, for a representative that has a cable_count: every merge leaves
\* it equal to the larger of its previous cable_count and the merged candidate's
\* (None lowest), and at the return a representative's cable_count that is not
\* None is the maximum over its cluster
CableCountIsMaximum ==
    /\ last.kind = "merge" /\ Before.cable_count # None =>
          cand[last.e].cable_count =
              Max(Before.cable_count, cand[last.c].cable_count)
    /\ pc = "returned" =>
          \A r \in Range(unique) :
              cand[r].cable_count # None =>
                  cand[r].cable_count = MaxCableCount(Cluster(r))

\* C5: no loop iteration replaces a cable_count that is a number by a smaller
\* number or by None, and a merge of a candidate whose cable_count is None, 0 or
\* lower than the representative's leaves the representative's cable_count as it was
CableCountNeverDecreases ==
    /\ \A r \in Refs :
          prev[r].cable_count # None =>
              /\ cand[r].cable_count # None
              /\ cand[r].cable_count >= prev[r].cable_count
    /\ /\ last.kind = "merge"
       /\ \/ cand[last.c].cable_count \in {None, 0}
          \/ cand[last.c].cable_count < Before.cable_count
       => cand[last.e].cable_count = Before.cable_count

\* C5 witness: a representative with cable_count 2 has absorbed a candidate with
\* cable_count 1 and still has 2
CableCountNeverDecreasesWitness ==
    /\ last.kind = "merge"
    /\ Before.cable_count = 2
    /\ cand[last.c].cable_count = 1
    /\ cand[last.e].cable_count = 2

\* the first weather_score of a cluster that is not None; None when there is none
FirstWeatherScore(records) ==
    LET given == { k \in DOMAIN records : records[k].weather_score # None }
    IN  IF given = {} THEN None
        ELSE records[CHOOSE k \in given : \A j \in given : k <= j].weather_score

\* C6 as stated: at the return a representative's weather_score is the first
\* weather_score that is not None in its cluster, a 0 included
WeatherFromFirstProvider ==
    pc = "returned" =>
        \A r \in Range(unique) :
            cand[r].weather_score = FirstWeatherScore(Cluster(r))

\* C7: no loop iteration changes a weather_score that is not None, a 0 included
WeatherNeverOverridden ==
    \A r \in Refs :
        prev[r].weather_score # None =>
            cand[r].weather_score = prev[r].weather_score

\* C7 witness: a representative whose weather_score is 0 has absorbed a candidate
\* whose weather_score is 2 and still has 0
WeatherNeverOverriddenWitness ==
    /\ last.kind = "merge"
    /\ Before.weather_score = 0
    /\ cand[last.c].weather_score = 2
    /\ cand[last.e].weather_score = 0

\* C8 as stated: for candidates that entered with merged_sources None or [], at
\* the return a candidate that absorbed nothing still has merged_sources None or
\* [], and one that absorbed k >= 1 candidates has its own source followed by the
\* sources of the absorbed candidates in merge order
MergedSourcesShape ==
    pc = "returned" =>
        \A r \in Range(unique) :
            entry[r].merged_sources \in {NoneList, Some(<< >>)} =>
                IF absorbed[r] = << >>
                THEN cand[r].merged_sources \in {NoneList, Some(<< >>)}
                ELSE cand[r].merged_sources =
                         Some(<< cand[r].source >> \o
                              [ k \in DOMAIN absorbed[r] |-> cand[absorbed[r][k]].source ])

\* the declared zones whose half-open interval [lon_min, lon_max) holds lon
Holding(lon) ==
    { k \in DOMAIN ZONES : ZONES[k].lon_min <= lon /\ lon < ZONES[k].lon_max }

\* C9: for -180 <= lon < 180 assign_zone returns the one declared zone whose
\* half-open interval holds lon; -180 is AMERICAS, -30 is EMEA and 60 is APAC
ZoneCoverage ==
    pc = "zoned" /\ -180 <= lon_in /\ lon_in < 180 =>
        /\ Cardinality(Holding(lon_in)) = 1
        /\ \E k \in Holding(lon_in) : zone_out = ZONES[k].name
        /\ lon_in = -180 => zone_out = "AMERICAS"
        /\ lon_in = -30 => zone_out = "EMEA"
        /\ lon_in = 60 => zone_out = "APAC"

\* C9 witness: assign_zone has returned EMEA for the boundary -30
ZoneCoverageWitness == pc = "zoned" /\ lon_in = -30 /\ zone_out = "EMEA"

\* C10: assign_zone always returns a declared zone name, and APAC for 180 and
\* for every longitude outside [-180, 180)
ZoneFallback ==
    pc = "zoned" =>
        /\ zone_out \in ZoneNames
        /\ lon_in >= 180 \/ lon_in < -180 => zone_out = "APAC"

\* C10 witness: assign_zone has returned APAC for 180 exactly
ZoneFallbackWitness == pc = "zoned" /\ lon_in = 180 /\ zone_out = "APAC"

\* the fields that deduplication is not to touch
FrameFields(c) ==
    << c.zone, c.id, c.name, c.latitude, c.longitude, c.source, c.tier, c.demand_gbps >>

\* C11: throughout a call every candidate keeps the zone, id, name, latitude,
\* longitude, source, tier and demand_gbps it entered with; a loop iteration changes
\* no object but the representative of a merge; a candidate that was absorbed is
\* exactly as it entered
DedupFrame ==
    /\ \A r \in Refs : FrameFields(cand[r]) = FrameFields(entry[r])
    /\ \A r \in Refs : cand[r] # prev[r] => last.kind = "merge" /\ r = last.e
    /\ \A e \in Refs : \A k \in DOMAIN absorbed[e] :
          cand[absorbed[e][k]] = entry[absorbed[e][k]]

\* C11 witness: a call has returned a representative whose cable_count and
\* merged_sources were changed by a merge
DedupFrameWitness ==
    /\ pc = "returned"
    /\ \E r \in Range(unique) :
          /\ absorbed[r] # << >>
          /\ cand[r].cable_count # entry[r].cable_count
          /\ cand[r].merged_sources # entry[r].merged_sources

\* a record that has both coordinates, neither of them null
HasBothCoordinates(r) ==
    /\ "latitude" \in DOMAIN r /\ r.latitude # None
    /\ "longitude" \in DOMAIN r /\ r.longitude # None

\* list holds, in order, one candidate for each of the first n records that has
\* both coordinates, with the record's coordinates, the zone of its longitude and
\* the given source
LoadedFrom(list, records, n, source) ==
    LET kept == SelectSeq(SubSeq(records, 1, n), HasBothCoordinates)
    IN  /\ Len(list) = Len(kept)
        /\ \A j \in DOMAIN list :
              /\ cand[list[j]].latitude = kept[j].latitude
              /\ cand[list[j]].longitude = kept[j].longitude
              /\ cand[list[j]].zone = assign_zone(kept[j].longitude)
              /\ cand[list[j]].source = source

\* C12: each loader has built, in record order, a Candidate for exactly the records
\* read so far whose latitude and longitude are both present and not null (0 is
\* kept), with zone assign_zone(longitude) and the source of its file
LoaderFilter ==
    /\ LoadedFrom(ground_nodes, nodes, node_pos, "ground_node")
    /\ LoadedFrom(cable_landings, points, point_pos, "cable_landing")

\* C12 witness: both files are loaded; each held a record without coordinates
\* followed by a record whose coordinates are both 0, which alone was kept
LoaderFilterWitness ==
    /\ pc = "call"
    /\ Len(nodes) = 2 /\ Len(points) = 2
    /\ ~HasBothCoordinates(nodes[1]) /\ ~HasBothCoordinates(points[1])
    /\ Len(ground_nodes) = 1 /\ Len(cable_landings) = 1
    /\ cand[ground_nodes[1]].latitude = 0 /\ cand[ground_nodes[1]].longitude = 0
    /\ cand[cable_landings[1]].latitude = 0 /\ cand[cable_landings[1]].longitude = 0

\* C13 as stated: no two Candidates built by the loaders have the same id, and no
\* two members of the returned list have the same id
IdsUnique ==
    /\ \A r1, r2 \in Refs : r1 # r2 => cand[r1].id # cand[r2].id
    /\ pc = "returned" =>
          \A i, j \in DOMAIN unique : i # j => cand[unique[i]].id # cand[unique[j]].id

\* C14: the mapping summarize_by_zone returned has exactly the declared zone names
\* as keys, each with the number of members of the list that have that zone (0 when
\* there is none), and the call changed neither a candidate nor the list
ZoneSummary ==
    pc = "summarized" =>
        /\ DOMAIN zone_counts = ZoneNames
        /\ \A z \in ZoneNames :
              zone_counts[z] =
                  Cardinality({ k \in DOMAIN unique : cand[unique[k]].zone = z })
        /\ cand = prev
        /\ unique = first_output

\* C14 witness: a summary of a list that is shorter than the loaded one, with no
\* AMERICAS candidate and candidates in the two other zones
ZoneSummaryWitness ==
    /\ pc = "summarized"
    /\ merged_count >= 1
    /\ zone_counts["AMERICAS"] = 0
    /\ zone_counts["EMEA"] >= 1
    /\ zone_counts["APAC"] >= 1

\* C15: when no record yields a candidate, deduplicate_candidates returns the empty
\* list after zero merges and summarize_by_zone returns 0 for every declared zone
EmptyInput ==
    /\ pc \in {"returned", "summarized"} /\ candidates = << >> =>
          unique = << >> /\ merged_count = 0
    /\ pc = "summarized" /\ candidates = << >> =>
          zone_counts = [ z \in ZoneNames |-> 0 ]

\* C15 witness: the run got to the summary with both files holding records, every
\* one of them dropped
EmptyInputWitness ==
    /\ pc = "summarized"
    /\ nodes # << >> /\ points # << >>
    /\ candidates = << >>
    /\ zone_counts = [ z \in ZoneNames |-> 0 ]

\* C16: when a call on exactly two candidates returns, a ground node g whose
\* cable_count was None and a cable landing c whose cable_count was k > 0, within
\* the threshold of each other, in either input order, have become the single
\* output g, with source ground_node, cable_count k, the cables of c and
\* merged_sources [ground_node, cable_landing]
TwoRecordMerge ==
    pc = "returned" /\ Len(candidates) = 2 =>
        \A g, c \in Range(candidates) :
            /\ entry[g].source = "ground_node" /\ entry[g].cable_count = None
            /\ entry[c].source = "cable_landing" /\ entry[c].cable_count > 0
            /\ Dist(entry[g], entry[c]) < threshold_km
            => /\ unique = << g >>
               /\ cand[g].source = "ground_node"
               /\ cand[g].cable_count = entry[c].cable_count
               /\ cand[g].cables = entry[c].cables
               /\ cand[g].merged_sources = Some(<< "ground_node", "cable_landing" >>)

\* C16 witness: the cable landing came first in the input and the ground node is
\* the one output
TwoRecordMergeWitness ==
    /\ pc = "returned"
    /\ Len(candidates) = 2
    /\ entry[candidates[1]].source = "cable_landing"
    /\ entry[candidates[1]].cable_count = 1
    /\ entry[candidates[2]].source = "ground_node"
    /\ entry[candidates[2]].cable_count = None
    /\ unique = << candidates[2] >>
    /\ cand[candidates[2]].cable_count = 1

\* C17: when a call on three candidates a, b, c returns, with a - b and b - c
\* within the threshold, a - c not, and b the first to be processed, the output is
\* b alone, after two merges, with three entries in its merged_sources
ChainAbsorbed ==
    pc = "returned" /\ Len(candidates) = 3 =>
        \A a, b, c \in Range(candidates) :
            /\ Dist(entry[a], entry[b]) < threshold_km
            /\ Dist(entry[b], entry[c]) < threshold_km
            /\ Dist(entry[a], entry[c]) >= threshold_km
            /\ sorted_candidates[1] = b
            => /\ unique = << b >>
               /\ merged_count = 2
               /\ Range(absorbed[b]) = {a, c}
               /\ Len(TheList(cand[b].merged_sources)) = 3

\* C17 witness: one representative is returned for three candidates, two of which
\* are not within the threshold of each other
ChainAbsorbedWitness ==
    /\ pc = "returned"
    /\ Len(candidates) = 3
    /\ Len(unique) = 1
    /\ merged_count = 2
    /\ \E a, c \in Range(candidates) : Dist(cand[a], cand[c]) >= threshold_km

\* the representatives the candidate of the last loop iteration was compared with
RepsBefore ==
    IF last.kind = "append" THEN SubSeq(unique, 1, Len(unique) - 1) ELSE unique

\* the distance of the candidate of the last loop iteration to the k-th of them
LastDist(k) == Dist(prev[last.c], prev[RepsBefore[k]])

\* C18 as stated: a candidate at a distance exactly threshold_km of a representative
\* is merged
ThresholdInclusive ==
    last.kind \in {"merge", "append"} =>
        \A k \in DOMAIN RepsBefore :
            LastDist(k) = threshold_km => last.kind = "merge"

\* C18 amended: the threshold is exclusive: a candidate is merged only into a
\* representative at a distance strictly below threshold_km, and it is appended
\* when every representative is at threshold_km or farther, exactly threshold_km
\* included
ThresholdExclusive ==
    /\ last.kind = "merge" => Dist(prev[last.c], prev[last.e]) < threshold_km
    /\ last.kind = "append" =>
          \A k \in DOMAIN RepsBefore : LastDist(k) >= threshold_km

\* C18 witness: a candidate at exactly threshold_km of a representative has been
\* appended as a representative of its own
ThresholdExclusiveWitness ==
    /\ last.kind = "append"
    /\ \E k \in DOMAIN RepsBefore : LastDist(k) = threshold_km

\* two points whose coordinates are equal or differ by less than the sines resolve
Unresolved(a, b) == Whole(a[1]) = Whole(b[1]) /\ Whole(a[2]) = Whole(b[2])

\* C19 as stated: haversine_km gives the same result both ways round, 0 for a point
\* and itself, never a negative result, and 0 only for identical coordinates
DistanceZeroOnlyIdentical ==
    pc = "measured" =>
        /\ km_out.ab = km_out.ba
        /\ km_out.aa = 0 /\ km_out.bb = 0
        /\ km_out.ab >= 0
        /\ km_out.ab = 0 => pts_in[1] = pts_in[2]

\* C19 amended: the same, but a result of 0 only tells that the coordinates are
\* identical or differ by less than the squared sines resolve in double precision
DistanceMetric ==
    pc = "measured" =>
        /\ km_out.ab = km_out.ba
        /\ km_out.aa = 0 /\ km_out.bb = 0
        /\ km_out.ab >= 0
        /\ pts_in[1] = pts_in[2] => km_out.ab = 0
        /\ km_out.ab = 0 => Unresolved(pts_in[1], pts_in[2])

\* C19 witness: the distance between longitude 0 and longitude 1e-170 on the
\* equator has been measured as 0
DistanceMetricWitness ==
    /\ pc = "measured"
    /\ pts_in = << << 0, 0 >>, << 0, Tiny >> >>
    /\ km_out.ab = 0

\* a cable_count with None counted as 0
CountOrZero(c) == IF c.cable_count = None THEN 0 ELSE c.cable_count

\* C20: the loop goes through the input in an order fixed at entry, in which every
\* ground node comes before every candidate of another source and, within ground
\* nodes and within the others, a higher cable_count at entry (None as 0) comes
\* before a lower one; the input list itself stays in the order it was given
ProcessingOrder ==
    pc \in {"loop", "returned"} =>
        /\ Len(sorted_candidates) = Len(candidates)
        /\ Range(sorted_candidates) = Range(candidates)
        /\ \A i, j \in DOMAIN sorted_candidates :
              i < j =>
                  LET a == entry[sorted_candidates[i]]
                      b == entry[sorted_candidates[j]]
                  IN  /\ b.source = "ground_node" => a.source = "ground_node"
                      /\ (a.source = "ground_node") = (b.source = "ground_node") =>
                             CountOrZero(a) >= CountOrZero(b)
        /\ last.kind \in {"merge", "append"} => last.c = sorted_candidates[pos]
        /\ calls = 0 \/ (calls = 1 /\ pc = "returned") =>
              candidates = [ k \in 1..Cardinality(Refs) |-> k ]

\* C20 witness: a call has returned after a merge raised the cable_count of a
\* representative above that of a candidate of its source class processed before it
ProcessingOrderWitness ==
    /\ pc = "returned"
    /\ \E i, j \in DOMAIN sorted_candidates :
          /\ i < j
          /\ cand[sorted_candidates[i]].source = cand[sorted_candidates[j]].source
          /\ CountOrZero(entry[sorted_candidates[i]]) > CountOrZero(entry[sorted_candidates[j]])
          /\ CountOrZero(cand[sorted_candidates[i]]) < CountOrZero(cand[sorted_candidates[j]])

\* the places in unique of the representatives that were within the threshold of
\* the candidate of the last loop iteration
LastHits == { k \in DOMAIN RepsBefore : LastDist(k) < threshold_km }

\* how many times reference c was absorbed
TimesAbsorbed(c) ==
    Cardinality({ ek \in Refs \X (1..Cardinality(Refs)) :
                    ek[2] \in DOMAIN absorbed[ek[1]] /\ absorbed[ek[1]][ek[2]] = c })

\* C21: a merge goes to the representative that stands earliest in unique among
\* those within the threshold, whether or not another is nearer; the candidate is
\* absorbed by that one alone, no other object changes in the step, unique keeps
\* its members and the merge counter is one more
FirstMatchWins ==
    last.kind = "merge" =>
        /\ LastHits # {}
        /\ \A k \in LastHits : unique[k] = last.e \/ \E j \in LastHits : j < k
        /\ \E k \in LastHits : unique[k] = last.e /\ \A j \in LastHits : k <= j
        /\ TimesAbsorbed(last.c) = 1
        /\ absorbed[last.e][Len(absorbed[last.e])] = last.c
        /\ \A r \in Refs : r # last.e => cand[r] = prev[r]
        /\ last.c \notin Range(unique)
        /\ Len(unique) + merged_count = pos

\* C21 witness: a candidate within the threshold of two representatives has been
\* merged into the earlier one although the other is nearer
FirstMatchWinsWitness ==
    /\ last.kind = "merge"
    /\ Cardinality(LastHits) = 2
    /\ \E k \in LastHits :
          /\ unique[k] # last.e
          /\ LastDist(k) < Dist(prev[last.c], prev[last.e])

\* C22: a candidate that is at threshold_km or farther, exactly threshold_km
\* included, from every representative there is when it is processed becomes the
\* last member of unique, as it entered the call; in the first call, where every
\* candidate enters with merged_sources None, it still has None; and a call on two
\* candidates farther apart than the threshold returns both after zero merges
NoMergeBeyondThreshold ==
    /\ /\ last.kind \in {"merge", "append"}
       /\ \A k \in DOMAIN RepsBefore : LastDist(k) >= threshold_km
       => /\ last.kind = "append"
          /\ unique # << >> /\ unique[Len(unique)] = last.c
          /\ cand[last.c] = entry[last.c]
          /\ calls = 0 => cand[last.c].merged_sources = NoneList
    /\ /\ pc = "returned"
       /\ Len(candidates) = 2
       /\ Dist(entry[candidates[1]], entry[candidates[2]]) > threshold_km
       => Len(unique) = 2 /\ merged_count = 0

\* C22 witness: a call on two candidates exactly threshold_km apart has returned
\* both, neither of them changed
NoMergeBeyondThresholdWitness ==
    /\ pc = "returned"
    /\ calls = 1
    /\ Len(candidates) = 2
    /\ Dist(entry[candidates[1]], entry[candidates[2]]) = threshold_km
    /\ Len(unique) = 2
    /\ merged_count = 0
    /\ cand = entry

\* the importance key of a candidate: ground nodes first, then the higher
\* cable_count (None as 0)
ClaimKey(c) == << IF c.source = "ground_node" THEN 0 ELSE 1, -CountOrZero(c) >>

\* key k1 is less than or equal to key k2
KeyAtMost(k1, k2) == k1[1] < k2[1] \/ (k1[1] = k2[1] /\ k1[2] <= k2[2])

\* C23: for every merge made so far in the call, the key at entry of the
\* representative is less than or equal to the key at entry of the candidate it
\* absorbed; no ground node was absorbed into a representative of another source;
\* and a representative of another source has no ground_node in merged_sources
ImportanceClaims ==
    /\ \A e \in Refs : \A k \in DOMAIN absorbed[e] :
          /\ KeyAtMost(ClaimKey(entry[e]), ClaimKey(entry[absorbed[e][k]]))
          /\ entry[absorbed[e][k]].source = "ground_node" =>
                 entry[e].source = "ground_node"
    /\ \A r \in Range(unique) :
          cand[r].source # "ground_node" => "ground_node" \notin MergedSet(r)

\* C23 witness: a cable landing with cable_count 2 has absorbed a cable landing with
\* cable_count 1 that came before it in the input
ImportanceClaimsWitness ==
    /\ last.kind = "merge"
    /\ last.c < last.e
    /\ entry[last.e].source = "cable_landing" /\ entry[last.e].cable_count = 2
    /\ entry[last.c].source = "cable_landing" /\ entry[last.c].cable_count = 1
    /\ MergedSet(last.e) = {"cable_landing"}

\* the candidates the loop has processed so far
Processed == { sorted_candidates[k] : k \in 1..pos }

\* C24: during and after the loop no object has been created, unique holds input
\* candidates, each once, every processed candidate is in unique or was absorbed,
\* once, and never both, the members of unique and the merges add up to the number
\* of candidates processed and, at the return, to the length of the input
CandidatesConserved ==
    pc \in {"loop", "returned"} =>
        /\ DOMAIN cand = DOMAIN entry
        /\ Range(unique) \subseteq Range(candidates)
        /\ Cardinality(Range(unique)) = Len(unique)
        /\ \A c \in Processed :
              IF c \in Range(unique) THEN TimesAbsorbed(c) = 0
                                     ELSE TimesAbsorbed(c) = 1
        /\ \A c \in Refs \ Processed : c \notin Range(unique) /\ TimesAbsorbed(c) = 0
        /\ Len(unique) + merged_count = pos
        /\ pc = "returned" => Len(unique) + merged_count = Len(candidates)

\* C24 witness: a call on three candidates has returned two of them after one merge
CandidatesConservedWitness ==
    /\ pc = "returned"
    /\ Len(candidates) = 3
    /\ Len(unique) = 2
    /\ merged_count = 1

\* the ids of list are those of the records kept among the first n: the record's
\* own id when it has the key, otherwise the prefix, a dash and the number of
\* records kept before it
IdsFrom(list, records, n, prefix) ==
    LET kept == SelectSeq(SubSeq(records, 1, n), HasBothCoordinates)
    IN  \A j \in DOMAIN list :
            cand[list[j]].id =
                IF "id" \in DOMAIN kept[j] THEN kept[j].id
                ELSE prefix \o "-" \o ToString(j - 1)

\* the ids the loader generated for list are pairwise distinct
FallbacksDistinct(list, records, n) ==
    LET kept == SelectSeq(SubSeq(records, 1, n), HasBothCoordinates)
    IN  \A i, j \in DOMAIN list :
            i # j /\ "id" \notin DOMAIN kept[i] /\ "id" \notin DOMAIN kept[j] =>
                cand[list[i]].id # cand[list[j]].id

\* C25: a record with an id key keeps its id; one without gets gn-<k> or cl-<k>,
\* k being the number of records of its file accepted before it, dropped records
\* not counted; the ids so generated within a file are pairwise distinct
FallbackIdPositional ==
    /\ Len(ground_nodes) <= node_pos /\ Len(cable_landings) <= point_pos
    /\ IdsFrom(ground_nodes, nodes, node_pos, "gn")
    /\ IdsFrom(cable_landings, points, point_pos, "cl")
    /\ FallbacksDistinct(ground_nodes, nodes, node_pos)
    /\ FallbacksDistinct(cable_landings, points, point_pos)

\* C25 witness: in both files a record without coordinates came before a located
\* record without id, which got index 0
FallbackIdPositionalWitness ==
    /\ pc = "call"
    /\ Len(nodes) = 2 /\ Len(points) = 2
    /\ ~HasBothCoordinates(nodes[1]) /\ ~HasBothCoordinates(points[1])
    /\ "id" \notin DOMAIN nodes[2] /\ "id" \notin DOMAIN points[2]
    /\ Len(ground_nodes) = 1 /\ Len(cable_landings) = 1
    /\ cand[ground_nodes[1]].id = "gn-0"
    /\ cand[cable_landings[1]].id = "cl-0"

\* the place of reference c in the processing order
PlaceOf(c) == CHOOSE k \in DOMAIN sorted_candidates : sorted_candidates[k] = c

\* the representatives that were in unique before c was processed, c's own
\* representative a left aside
EarlierReps(c, a) == { r \in Range(unique) : r # a /\ PlaceOf(r) < PlaceOf(c) }

\* no member of reps is within the threshold of c
Clear(c, reps) == \A r \in reps : Dist(entry[c], entry[r]) >= threshold_km

\* the references of list in the order of their keys at entry, equal keys in the
\* order of list
StableOrder(list) ==
    LET less(i, j) == \/ ClaimKey(entry[list[i]]) # ClaimKey(entry[list[j]])
                         /\ KeyAtMost(ClaimKey(entry[list[i]]), ClaimKey(entry[list[j]]))
                      \/ ClaimKey(entry[list[i]]) = ClaimKey(entry[list[j]]) /\ i < j
        at(r) == CHOOSE k \in DOMAIN list :
                     Cardinality({ j \in DOMAIN list : less(j, k) }) = r - 1
    IN  [ r \in DOMAIN list |-> list[at(r)] ]

RECURSIVE Greedy(_, _)
\* the representatives of the first n elements of order: each element joins them
\* unless one of them is within the threshold of it
Greedy(order, n) ==
    IF n = 0 THEN << >>
    ELSE LET reps == Greedy(order, n - 1)
         IN  IF Clear(order[n], Range(reps)) THEN Append(reps, order[n]) ELSE reps

\* C26: candidates with equal keys are processed in input order; of two such
\* candidates within the threshold of each other, neither within the threshold of
\* an earlier representative, the earlier in the input is a representative and has
\* absorbed the later; and the returned list is the one that the input sequence
\* and the threshold determine
StableTieBreak ==
    /\ pc \in {"loop", "returned"} =>
          \A i, j \in DOMAIN candidates :
              i < j /\ ClaimKey(entry[candidates[i]]) = ClaimKey(entry[candidates[j]])
                  => PlaceOf(candidates[i]) < PlaceOf(candidates[j])
    /\ pc = "returned" =>
          /\ \A i, j \in DOMAIN candidates :
                LET a == candidates[i]
                    b == candidates[j]
                IN  /\ i < j
                    /\ ClaimKey(entry[a]) = ClaimKey(entry[b])
                    /\ Dist(entry[a], entry[b]) < threshold_km
                    /\ Clear(a, EarlierReps(a, a))
                    /\ Clear(b, EarlierReps(b, a))
                    => a \in Range(unique) /\ b \in Range(absorbed[a])
          /\ unique = Greedy(StableOrder(candidates), Len(candidates))

\* C26 witness: of two candidates with equal keys the first in the input has
\* absorbed the second, in a call on three candidates that returned two
StableTieBreakWitness ==
    /\ pc = "returned"
    /\ Len(candidates) = 3
    /\ Len(unique) = 2
    /\ \E i, j \in DOMAIN candidates :
          /\ i < j
          /\ ClaimKey(entry[candidates[i]]) = ClaimKey(entry[candidates[j]])
          /\ candidates[i] \in Range(unique)
          /\ candidates[j] \in Range(absorbed[candidates[i]])

\* C27: at the return every input candidate is in the output or was merged into an
\* output representative that is, with the coordinates both have now, strictly
\* within threshold_km of it
InputCovered ==
    pc = "returned" =>
        \A c \in Range(candidates) :
            \/ c \in Range(unique)
            \/ \E r \in Range(unique) :
                  /\ c \in Range(absorbed[r])
                  /\ Dist(cand[c], cand[r]) < threshold_km

\* C27 witness: a candidate was merged into a representative 8398 km away, with a
\* threshold of 10000 km, along with another that is not within the threshold of it
InputCoveredWitness ==
    /\ pc = "returned"
    /\ \E r \in Range(unique) : \E a, c \in Range(absorbed[r]) :
          /\ Dist(cand[c], cand[r]) = 8398
          /\ Dist(cand[a], cand[c]) >= threshold_km

\* C28: in the object main writes, total_candidates is the length of the
\* deduplicated list, every candidate of that list has a declared zone, the three
\* zone_distribution counts add up to total_candidates, and so do the two source
\* counts less the number of merges
SummaryConsistent ==
    pc = "written" =>
        LET m == output.metadata
        IN  /\ m.total_candidates = Len(unique)
            /\ m.total_candidates = Len(output.candidates)
            /\ \A k \in DOMAIN output.candidates : output.candidates[k].zone \in ZoneNames
            /\ m.total_candidates = m.zone_distribution["AMERICAS"]
                                    + m.zone_distribution["EMEA"]
                                    + m.zone_distribution["APAC"]
            /\ m.total_candidates =
                   m.sources.ground_nodes + m.sources.cable_landings - merged_count

\* C28 witness: the output of a run that loaded two ground nodes and two cable
\* landings and merged one of them
SummaryConsistentWitness ==
    /\ pc = "written"
    /\ output.metadata.sources.ground_nodes = 2
    /\ output.metadata.sources.cable_landings = 2
    /\ merged_count = 1
    /\ output.metadata.total_candidates = 3

\* the record whose cable_count and cables representative r is to carry: r itself
\* when it entered with a cable_count, otherwise the first candidate merged into it
\* with a positive cable_count, otherwise r
CableOwner(r) ==
    LET given == { k \in DOMAIN absorbed[r] :
                     /\ entry[absorbed[r][k]].cable_count # None
                     /\ entry[absorbed[r][k]].cable_count > 0 }
    IN  IF entry[r].cable_count # None \/ given = {} THEN r
        ELSE absorbed[r][CHOOSE k \in given : \A j \in given : k <= j]

\* C29: in a run of main, before every merge the representative's cable_count was
\* None or at least the merged candidate's, a cable_count that was a number is left
\* as it was, and every candidate's cable_count and cables are those of one record:
\* its own, or the first it absorbed with a positive cable_count
CablesPaired ==
    /\ last.kind = "merge" =>
          /\ \/ Before.cable_count = None
             \/ /\ cand[last.c].cable_count # None
                /\ Before.cable_count >= cand[last.c].cable_count
          /\ Before.cable_count # None =>
                 cand[last.e].cable_count = Before.cable_count
    /\ \A r \in Refs :
          /\ cand[r].cable_count = entry[CableOwner(r)].cable_count
          /\ cand[r].cables = entry[CableOwner(r)].cables

\* C29 witness: a ground node that took cable_count 2 and the cables of a cable
\* landing has then absorbed a cable landing with cable_count 1
CablesPairedWitness ==
    /\ last.kind = "merge"
    /\ entry[last.e].source = "ground_node"
    /\ Before.cable_count = 2
    /\ cand[last.c].cable_count = 1
    /\ cand[last.e].cable_count = 2
    /\ cand[last.e].cables = entry[absorbed[last.e][1]].cables
    /\ cand[last.e].cables # cand[last.c].cables

\* what a call of generate_telemetry may do to the simulator
TelemetryCall ==
    /\ sim.tracking_mode = 2 => sim'.tracking_mode = 2
    /\ sim.tracking_mode \in {0, 3} =>
          /\ sim'.tracking_mode = sim.tracking_mode
          /\ sim'.azimuth = sim.azimuth
          /\ sim'.elevation = sim.elevation
    /\ sim.tracking_mode = 1 =>
          IF sim.azimuth + 2 > 360
          THEN sim'.tracking_mode = 2 /\ sim'.azimuth = sim.azimuth + 2 - 360
          ELSE sim'.tracking_mode = 1 /\ sim'.azimuth = sim.azimuth + 2
    /\ sim'.link_locked = (sim'.tracking_mode = 2)
    /\ sim'.packet_count >= sim.packet_count
    /\ sim'.packet_count > sim.packet_count => sim'.tracking_mode = 2

====
